---- MODULE Spec2Model ----
(***************************************************************************)
(* Event distribution core of ZeroERP: the webhook registry, signer and    *)
(* fire-and-forget dispatcher of server/index.js, and the WebSocket        *)
(* connection / subscription / broadcast engine of                         *)
(* server/services/websocket.js.                                           *)
(***************************************************************************)
EXTENDS Integers, Sequences, FiniteSets, Bags, TLC

(***************************************************************************)
(* Bounds of the model.                                                    *)
(***************************************************************************)
\* total number of webhook registrations (crypto.randomUUID() never repeats)
MaxRegistrations == 2
\* fetch() calls that may be awaiting their response at the same time
MaxInflight == 2
\* orders that are created in one run
MaxOrders == 1
\* total number of WebSocket connections accepted in one run
MaxConnections == 2
\* sockets the WebSocket client service of a browser creates in one run
MaxSockets == 6

(***************************************************************************)
(* Values.                                                                 *)
(***************************************************************************)
\* own keys of the WEBHOOK_EVENTS object literal
WEBHOOK_EVENTS ==
  {"order.created", "order.shipped", "order.cancelled", "inventory.low",
   "inventory.updated", "po.created", "po.received"}

\* keys every object literal inherits from Object.prototype; the value found
\* under each of them is a function or an object, hence truthy
ObjectPrototypeKeys ==
  {"constructor", "toString", "valueOf", "hasOwnProperty", "__proto__"}

\* the expression WEBHOOK_EVENTS[name] converted to a boolean: a property
\* lookup on a plain object, which follows the prototype chain
LookupIsTruthy(name) ==
  name \in WEBHOOK_EVENTS \/ name \in ObjectPrototypeKeys

\* event names the environment passes in
EventNames == {"order.created", "inventory.low", "constructor", "not.a.real.event"}

Undefined == "undefined"
\* `secret` of a registration request that is a truthy value but not a
\* string (express.json() hands over any JSON value)
NumberSecret == "<number 123>"

\* the array in the `events` field of a request body
Array(items) == [isArray |-> TRUE, items |-> items]
\* an `events` field that is missing or is not an array
NotAnArray == [isArray |-> FALSE, items |-> {}]

\* request bodies of POST /api/webhooks; "" is a falsy url, Undefined an
\* omitted secret
RegistrationRequests ==
  {[url |-> "https://example.com/hook", events |-> Array({"order.created"}),
    secret |-> Undefined],
   [url |-> "https://b.example/hook",
    events |-> Array({"order.created", "inventory.low"}), secret |-> "whsec_1"],
   [url |-> "https://example.com/hook", events |-> Array({"order.created"}),
    secret |-> NumberSecret],
   [url |-> "https://b.example/hook", events |-> Array({"constructor"}),
    secret |-> Undefined],
   [url |-> "https://example.com/hook", events |-> Array({}),
    secret |-> Undefined],
   [url |-> "", events |-> Array({"order.created"}), secret |-> "whsec_1"],
   [url |-> "https://example.com/hook", events |-> NotAnArray,
    secret |-> Undefined],
   [url |-> "https://example.com/hook",
    events |-> Array({"order.created", "not.a.real.event"}),
    secret |-> Undefined]}

Falsy(v) == v \in {"", Undefined}

\* new Date().toISOString() as read by a handler
Times == {"t1", "t2"}

\* new Date().toISOString() / Date.now() as read by the WebSocket service
FrameTimes == {"t1"}

\* crypto.randomUUID() of the n-th registration
randomUUID(n) == n

\* crypto.randomBytes(32).toString('hex') of the n-th registration: a fresh
\* 64-digit string, different from every other one and from any given secret
randomBytesHex(n) ==
  <<"gen_1", "gen_2", "gen_3", "gen_4", "gen_5", "gen_6">>[n]

\* new Date().toISOString() stored as createdAt by the n-th registration
CreatedAt(n) == <<"c1", "c2", "c3", "c4", "c5", "c6">>[n]

\* `ord_` + the first 8 digits of the n-th order's UUID
OrderId(n) == <<"ord_1", "ord_2", "ord_3", "ord_4">>[n]

\* request bodies of POST /api/orders (customerId, items, ... as one token)
OrderInputs == {"cart_a"}

\* `data` handed to emitEvent by a direct caller
DataInputs == {[id |-> "ord_9", cart |-> "cart_a", status |-> "pending"]}

\* the order object POST /api/orders builds for its n-th order
NewOrder(n, input) == [id |-> OrderId(n), cart |-> input, status |-> "pending"]

\* channel names clients subscribe and broadcast to
ChannelInputs == {"inventory.low", "order.created", "all-events"}

\* event types handed to broadcastEvent
BroadcastEvents == {"inventory.low", "order.created"}

\* payload.data of the broadcast frames clients send: a plain value, and an
\* object whose own fields imitate the envelope of a relayed frame
ForgedEnvelope == "{type:'event',from:0,channel:'all-events'}"
BroadcastData == {"hello", ForgedEnvelope}

\* parsed inbound frames {type, payload: {channel, data}}; Undefined stands
\* for a missing field, type "unparseable" for text JSON.parse rejects
Messages ==
  [type : {"subscribe", "unsubscribe"}, channel : ChannelInputs \cup {Undefined},
   data : {Undefined}]
  \cup [type : {"broadcast"}, channel : ChannelInputs \cup {Undefined},
        data : {"hello"}]
  \cup [type : {"broadcast"}, channel : {"all-events"}, data : {Undefined}]
  \cup [type : {"ping", "bogus", "unparseable"}, channel : {Undefined},
        data : {Undefined}]

\* what a pending fetch() can turn into: a 2xx response, another response,
\* or a network error
Outcomes == {"ok", "non2xx", "error"}

VARIABLES
  webhookRegistry,  \* the array of subscriber records, in registration order
  uuids,            \* number of webhook ids drawn so far
  ordersStore,      \* the array of orders
  inflight,         \* fetch() calls whose promise is still pending
  call,             \* the operation the last step ran, with its arguments
  fetched,          \* the fetch() calls the last step started, in order
  res,              \* the HTTP response the last step wrote (status 0: none)
  logged,           \* the log lines the last step wrote, in order
  rejected,         \* the last step left a rejected promise nobody handles
  clients,          \* clientId -> [subscriptions, readyState, isAlive]
  channels,         \* channelName -> set of clientIds
  connections,      \* number of connections accepted so far
  sent,             \* the frames the last step sent, in order: [to, frame]
  wsClient          \* the state of the WebSocket client service of a browser

webhookVars == <<webhookRegistry, uuids, ordersStore, inflight>>
realtimeVars == <<clients, channels, connections>>
vars == <<webhookRegistry, uuids, ordersStore, inflight, call, fetched, res,
          logged, rejected, clients, channels, connections, sent, wsClient>>

\* what `call` records of a step: the operation; the event name, message
\* type or fetch outcome it was given; the connection or webhook id it
\* concerns (0: none); the channel named by a message, the secret given to a
\* registration or the kind of the settled request; and the subscriptions the
\* connection had before the step, or the url of the settled request
Call(op, event, by, arg, had) ==
  [op |-> op, event |-> event, by |-> by, arg |-> arg, had |-> had]

\* new Map()
EmptyMap == [k \in {} |-> {}]

NoResponse == [status |-> 0, body |-> "none"]
NoSignature == <<>>

(***************************************************************************)
(* Signature generator and serialisation.                                  *)
(***************************************************************************)
\* JSON.stringify of a payload object literal {event, timestamp, data}: the
\* keys in insertion order, each followed by its value
JSON_stringify(payload) ==
  <<"event", payload.event, "timestamp", payload.timestamp,
    "data", payload.data>>

\* crypto.createHmac accepts a string (or buffer) key and throws a TypeError
\* for any other value
ValidHmacKey(secret) == secret # NumberSecret

\* HMAC-SHA256 digest, hex encoded: determined by the key and the bytes
HmacSha256Hex(key, bytes) == <<"hmac-sha256", key, bytes>>

\* a signer that digests the data of the payload rather than the serialised
\* payload the request transmits
generateWebhookSignature_DataOnly(payload, secret) ==
  HmacSha256Hex(secret, <<"data", payload.data>>)

generateWebhookSignature(payload, secret) ==
  HmacSha256Hex(secret, JSON_stringify(payload))

(***************************************************************************)
(* Webhook dispatcher.                                                     *)
(***************************************************************************)
\* the headers and the fetch() call of one subscriber in the forEach body
DeliveryRequest(subscriber, event, payload) ==
  [kind |-> "dispatch",
   to |-> subscriber.id,
   url |-> subscriber.url,
   event |-> event,
   timestamp |-> payload.timestamp,
   signature |-> IF ~Falsy(subscriber.secret)
                 THEN generateWebhookSignature(payload, subscriber.secret)
                 ELSE NoSignature,
   body |-> JSON_stringify(payload)]

\* the forEach over the subscribers, from index i on. Each turn logs, builds
\* the headers and calls fetch(); computing a signature with a key createHmac
\* refuses throws out of the loop, so neither that subscriber nor any later
\* one is fetched, and the promise of the async function rejects
RECURSIVE ForEachSubscriber(_, _, _, _, _)
ForEachSubscriber(subscribers, event, payload, i, acc) ==
  IF i > Len(subscribers)
  THEN acc
  ELSE LET subscriber == subscribers[i]
           firing == [level |-> "info", what |-> "firing",
                      about |-> subscriber.url]
       IN  IF ~Falsy(subscriber.secret) /\ ~ValidHmacKey(subscriber.secret)
           THEN [fetched |-> acc.fetched,
                 logged |-> Append(acc.logged, firing),
                 rejected |-> TRUE]
           ELSE ForEachSubscriber(subscribers, event, payload, i + 1,
                  [fetched |-> Append(acc.fetched,
                                 DeliveryRequest(subscriber, event, payload)),
                   logged |-> Append(acc.logged, firing),
                   rejected |-> FALSE])

triggerWebhooks(registry, event, data, now) ==
  LET subscribers == SelectSeq(registry, LAMBDA w : event \in w.events)
      payload == [event |-> event, timestamp |-> now, data |-> data]
  IN  IF Len(subscribers) = 0
      THEN [fetched |-> <<>>,
            logged |-> <<[level |-> "debug", what |-> "no-subscribers",
                          about |-> event]>>,
            rejected |-> FALSE]
      ELSE ForEachSubscriber(subscribers, event, payload, 1,
             [fetched |-> <<>>, logged |-> <<>>, rejected |-> FALSE])

\* the event emitter: an unknown name is a warning and nothing else
emitEvent(registry, event, data, now) ==
  IF ~LookupIsTruthy(event)
  THEN [fetched |-> <<>>,
        logged |-> <<[level |-> "warn", what |-> "unknown-event",
                      about |-> event]>>,
        rejected |-> FALSE]
  ELSE triggerWebhooks(registry, event, data, now)

\* a started fetch() as the pending promise remembers it
Pending(request) == [kind |-> request.kind, url |-> request.url]

\* the pending promises of the requests, as a bag
Pendings(requests) ==
  LET items == {Pending(requests[k]) : k \in 1..Len(requests)}
  IN  [p \in items |->
         Cardinality({k \in 1..Len(requests) : Pending(requests[k]) = p})]

(***************************************************************************)
(* Initial state: empty registries, nothing sent.                          *)
(***************************************************************************)
\* the module state of the WebSocket client service when it is loaded:
\* `let ws = null; let clientId = null; let reconnectAttempts = 0`, no socket
\* created (a socket leaves `sockets` when its close event has been handled)
\* and no reconnect timer pending; 0 stands for null
NewClient ==
  [ws |-> 0, clientId |-> 0, reconnectAttempts |-> 0,
   sockets |-> EmptyMap, timers |-> 0, created |-> 0]

Quiet ==
  /\ fetched = <<>>
  /\ res = NoResponse
  /\ logged = <<>>
  /\ rejected = FALSE
  /\ sent = <<>>

Init ==
  /\ webhookRegistry = <<>>
  /\ uuids = 0
  /\ ordersStore = <<>>
  /\ inflight = EmptyBag
  /\ call = Call("start", "none", 0, "none", {})
  /\ Quiet
  /\ clients = EmptyMap
  /\ channels = EmptyMap
  /\ connections = 0
  /\ wsClient = NewClient

(***************************************************************************)
(* Webhook registration API.                                               *)
(***************************************************************************)
\* events.filter(e => !WEBHOOK_EVENTS[e])
invalidEvents(events) == {e \in events.items : ~LookupIsTruthy(e)}

\* the validation of POST /api/webhooks: the 400 answer, or "ok"
ValidateRegistration(url, events) ==
  IF Falsy(url) \/ ~events.isArray
  THEN "url and events array are required"
  ELSE IF invalidEvents(events) # {}
  THEN "Invalid events"
  ELSE "ok"

\* a registration that always generates the secret and drops the one the
\* caller supplied
NewWebhook_AlwaysGenerated(n, url, events, secret) ==
  [id |-> randomUUID(n),
   url |-> url,
   events |-> events.items,
   secret |-> randomBytesHex(n),
   createdAt |-> CreatedAt(n)]

\* a registration that stores the secret of the request as it came
NewWebhook_SecretAsGiven(n, url, events, secret) ==
  [id |-> randomUUID(n),
   url |-> url,
   events |-> events.items,
   secret |-> secret,
   createdAt |-> CreatedAt(n)]

\* the subscriber record POST /api/webhooks builds
NewWebhook(n, url, events, secret) ==
  [id |-> randomUUID(n),
   url |-> url,
   events |-> events.items,
   secret |-> IF ~Falsy(secret) THEN secret ELSE randomBytesHex(n),
   createdAt |-> CreatedAt(n)]

\* POST /api/webhooks
PostWebhooks(url, events, secret) ==
  LET verdict == ValidateRegistration(url, events) IN
  /\ call' = Call("register", "none", 0, secret, {})
  /\ fetched' = <<>> /\ logged' = <<>> /\ rejected' = FALSE /\ sent' = <<>>
  /\ IF verdict # "ok"
     THEN /\ res' = [status |-> 400, body |-> verdict]
          /\ UNCHANGED <<webhookRegistry, uuids>>
     ELSE /\ uuids < MaxRegistrations
          /\ uuids' = uuids + 1
          /\ webhookRegistry' =
               Append(webhookRegistry, NewWebhook(uuids', url, events, secret))
          /\ res' = [status |-> 201, body |-> "registered"]
  /\ UNCHANGED <<ordersStore, inflight, realtimeVars, wsClient>>

\* webhookRegistry.findIndex(w => w.id === webhookId), 0 for -1
findIndex(registry, webhookId) ==
  IF \E i \in 1..Len(registry) : registry[i].id = webhookId
  THEN CHOOSE i \in 1..Len(registry) :
         /\ registry[i].id = webhookId
         /\ \A j \in 1..(i - 1) : registry[j].id # webhookId
  ELSE 0

\* a splice without its delete count, webhookRegistry.splice(index), which
\* removes the element and everything after it
splice_ToEnd(registry, index) == SubSeq(registry, 1, index - 1)

\* webhookRegistry.splice(index, 1)
splice(registry, index) ==
  [k \in 1..(Len(registry) - 1) |->
     IF k < index THEN registry[k] ELSE registry[k + 1]]

\* DELETE /api/webhooks/:webhookId
DeleteWebhook(webhookId) ==
  LET index == findIndex(webhookRegistry, webhookId) IN
  /\ call' = Call("delete", "none", webhookId, "none", {})
  /\ fetched' = <<>> /\ logged' = <<>> /\ rejected' = FALSE /\ sent' = <<>>
  /\ IF index = 0
     THEN /\ res' = [status |-> 404, body |-> "Webhook not found"]
          /\ UNCHANGED webhookRegistry
     ELSE /\ webhookRegistry' = splice(webhookRegistry, index)
          /\ res' = [status |-> 200, body |-> "Webhook deleted"]
  /\ UNCHANGED <<uuids, ordersStore, inflight, realtimeVars, wsClient>>

\* the payload, headers and fetch() call of POST /api/webhooks/:id/test
TestRequest(webhook, now) ==
  LET testPayload == [event |-> "test", timestamp |-> now,
                      data |-> [id |-> "none", cart |-> "test-message",
                                status |-> "none"]]
  IN  [kind |-> "test",
       to |-> webhook.id,
       url |-> webhook.url,
       event |-> "test",
       timestamp |-> testPayload.timestamp,
       signature |-> IF ~Falsy(webhook.secret)
                     THEN generateWebhookSignature(testPayload, webhook.secret)
                     ELSE NoSignature,
       body |-> JSON_stringify(testPayload)]

\* POST /api/webhooks/:webhookId/test, up to its await: an unknown id is a
\* 404; a key createHmac refuses throws inside the try block and is answered
\* by the catch block; otherwise the fetch() is started and awaited
PostWebhookTest(webhookId, now) ==
  LET index == findIndex(webhookRegistry, webhookId) IN
  /\ call' = Call("test", "test", webhookId, "none", {})
  /\ logged' = <<>> /\ rejected' = FALSE /\ sent' = <<>>
  /\ IF index = 0
     THEN /\ res' = [status |-> 404, body |-> "Webhook not found"]
          /\ fetched' = <<>>
          /\ UNCHANGED inflight
     ELSE LET webhook == webhookRegistry[index] IN
          IF ~Falsy(webhook.secret) /\ ~ValidHmacKey(webhook.secret)
          THEN /\ res' = [status |-> 200, body |-> "Failed to deliver test webhook"]
               /\ fetched' = <<>>
               /\ UNCHANGED inflight
          ELSE /\ BagCardinality(inflight) < MaxInflight
               /\ fetched' = <<TestRequest(webhook, now)>>
               /\ inflight' = inflight (+) Pendings(fetched')
               /\ res' = NoResponse
  /\ UNCHANGED <<webhookRegistry, uuids, ordersStore, realtimeVars, wsClient>>

(***************************************************************************)
(* WebSocket service: sending.                                             *)
(***************************************************************************)
\* the elements of a set of client ids as a sequence, smallest first
RECURSIVE SetToSeq(_)
SetToSeq(S) ==
  IF S = {} THEN <<>>
  ELSE LET m == CHOOSE x \in S : \A y \in S : x <= y
       IN  <<m>> \o SetToSeq(S \ {m})

\* sendToClient: the frames put on the wire (none when the client is unknown
\* or its socket is not OPEN)
sendToClient(cl, clientId, data) ==
  IF clientId \notin DOMAIN cl \/ cl[clientId].readyState # "OPEN"
  THEN <<>>
  ELSE <<[to |-> clientId, frame |-> data]>>

\* { ...data, channel }
WithChannel(data, channel) ==
  [f \in DOMAIN data \cup {"channel"} |->
     IF f = "channel" THEN channel ELSE data[f]]

RECURSIVE SendEach(_, _, _)
SendEach(cl, ids, data) ==
  IF ids = <<>> THEN <<>>
  ELSE sendToClient(cl, Head(ids), data) \o SendEach(cl, Tail(ids), data)

\* broadcastToChannel: one send per member of the channel
broadcastToChannel(cl, ch, channel, data) ==
  IF channel \notin DOMAIN ch
  THEN <<>>
  ELSE SendEach(cl, SetToSeq(ch[channel]), WithChannel(data, channel))

\* a broadcastEvent that publishes to the event-specific channel only
broadcastEvent_EventChannelOnly(cl, ch, eventType, eventData, now) ==
  LET message == [type |-> "event", event |-> eventType, data |-> eventData,
                  timestamp |-> now]
  IN  broadcastToChannel(cl, ch, eventType, message)

\* a broadcastEvent that skips, on 'all-events', the members the
\* event-specific channel has reached already
broadcastEvent_Deduplicated(cl, ch, eventType, eventData, now) ==
  LET message == [type |-> "event", event |-> eventType, data |-> eventData,
                  timestamp |-> now]
      first == broadcastToChannel(cl, ch, eventType, message)
      second == broadcastToChannel(cl, ch, "all-events", message)
  IN  first \o SelectSeq(second,
                 LAMBDA f : \A k \in 1..Len(first) : first[k].to # f.to)

\* broadcastEvent: the event-specific channel, then 'all-events'
broadcastEvent(cl, ch, eventType, eventData, now) ==
  LET message == [type |-> "event", event |-> eventType, data |-> eventData,
                  timestamp |-> now]
  IN  broadcastToChannel(cl, ch, eventType, message)
      \o broadcastToChannel(cl, ch, "all-events", message)

(***************************************************************************)
(* WebSocket service: subscriptions.                                       *)
(***************************************************************************)
\* map.set(key, value)
MapSet(map, key, value) ==
  [k \in DOMAIN map \cup {key} |-> IF k = key THEN value ELSE map[k]]

\* map.delete(key)
MapDelete(map, key) == [k \in DOMAIN map \ {key} |-> map[k]]

\* a removal that keeps a channel whose member set became empty
LeaveChannel_KeepEmpty(ch, channel, clientId) ==
  IF channel \notin DOMAIN ch
  THEN ch
  ELSE MapSet(ch, channel, ch[channel] \ {clientId})

\* channels.get(channel).delete(clientId), and channels.delete(channel) when
\* that leaves the set empty
LeaveChannel(ch, channel, clientId) ==
  IF channel \notin DOMAIN ch
  THEN ch
  ELSE IF ch[channel] \ {clientId} = {}
  THEN MapDelete(ch, channel)
  ELSE MapSet(ch, channel, ch[channel] \ {clientId})

\* a handleSubscribe that sets a fresh member set without looking whether
\* the channel exists
handleSubscribe_FreshSet(cl, ch, clientId, channel, now) ==
  IF Falsy(channel)
  THEN [clients |-> cl, channels |-> ch,
        sent |-> sendToClient(cl, clientId,
                   [type |-> "error",
                    message |-> "Channel name required for subscription"])]
  ELSE IF clientId \notin DOMAIN cl
  THEN [clients |-> cl, channels |-> ch, sent |-> <<>>]
  ELSE LET cl2 == [cl EXCEPT ![clientId].subscriptions = @ \cup {channel}]
       IN  [clients |-> cl2, channels |-> MapSet(ch, channel, {clientId}),
            sent |-> sendToClient(cl2, clientId,
                       [type |-> "subscribed", channel |-> channel,
                        timestamp |-> now])]

\* handleSubscribe: [clients, channels, sent]
handleSubscribe(cl, ch, clientId, channel, now) ==
  IF Falsy(channel)
  THEN [clients |-> cl, channels |-> ch,
        sent |-> sendToClient(cl, clientId,
                   [type |-> "error",
                    message |-> "Channel name required for subscription"])]
  ELSE IF clientId \notin DOMAIN cl
  THEN [clients |-> cl, channels |-> ch, sent |-> <<>>]
  ELSE LET cl2 == [cl EXCEPT ![clientId].subscriptions = @ \cup {channel}]
           ch2 == MapSet(ch, channel,
                    (IF channel \in DOMAIN ch THEN ch[channel] ELSE {})
                      \cup {clientId})
       IN  [clients |-> cl2, channels |-> ch2,
            sent |-> sendToClient(cl2, clientId,
                       [type |-> "subscribed", channel |-> channel,
                        timestamp |-> now])]

\* a handleUnsubscribe that drops the channel from the connection's
\* subscriptions and leaves the member set of the channel as it was
handleUnsubscribe_SubscriptionOnly(cl, ch, clientId, channel) ==
  IF Falsy(channel) \/ clientId \notin DOMAIN cl
  THEN [clients |-> cl, channels |-> ch, sent |-> <<>>]
  ELSE LET cl2 == [cl EXCEPT ![clientId].subscriptions = @ \ {channel}]
       IN  [clients |-> cl2,
            channels |-> ch,
            sent |-> sendToClient(cl2, clientId,
                       [type |-> "unsubscribed", channel |-> channel])]

\* handleUnsubscribe: [clients, channels, sent]
handleUnsubscribe(cl, ch, clientId, channel) ==
  IF Falsy(channel) \/ clientId \notin DOMAIN cl
  THEN [clients |-> cl, channels |-> ch, sent |-> <<>>]
  ELSE LET cl2 == [cl EXCEPT ![clientId].subscriptions = @ \ {channel}]
       IN  [clients |-> cl2,
            channels |-> LeaveChannel(ch, channel, clientId),
            sent |-> sendToClient(cl2, clientId,
                       [type |-> "unsubscribed", channel |-> channel])]

\* the forEach of handleDisconnect over the client's subscriptions
RECURSIVE LeaveAll(_, _, _)
LeaveAll(ch, subscriptions, clientId) ==
  IF subscriptions = {} THEN ch
  ELSE LET channel == CHOOSE c \in subscriptions : TRUE
       IN  LeaveAll(LeaveChannel(ch, channel, clientId),
                    subscriptions \ {channel}, clientId)

\* a handleDisconnect without the early return for an unknown client: the
\* read of client.subscriptions throws inside the 'close' listener, the
\* process dies and every connection goes with it
handleDisconnect_NoGuard(cl, ch, clientId) ==
  IF clientId \notin DOMAIN cl
  THEN [clients |-> EmptyMap, channels |-> EmptyMap]
  ELSE [clients |-> MapDelete(cl, clientId),
        channels |-> LeaveAll(ch, cl[clientId].subscriptions, clientId)]

\* a handleDisconnect that forgets the channels
handleDisconnect_ClientOnly(cl, ch, clientId) ==
  IF clientId \notin DOMAIN cl
  THEN [clients |-> cl, channels |-> ch]
  ELSE [clients |-> MapDelete(cl, clientId), channels |-> ch]

\* handleDisconnect: [clients, channels]
handleDisconnect(cl, ch, clientId) ==
  IF clientId \notin DOMAIN cl
  THEN [clients |-> cl, channels |-> ch]
  ELSE [clients |-> MapDelete(cl, clientId),
        channels |-> LeaveAll(ch, cl[clientId].subscriptions, clientId)]

\* the frames of a send to every client of the map (broadcastAll)
broadcastAll(cl, data) == SendEach(cl, SetToSeq(DOMAIN cl), data)

\* a handleMessage that answers ping through broadcastAll
handleMessage_PongToAll(cl, ch, clientId, message, now) ==
  CASE message.type = "subscribe" ->
         handleSubscribe(cl, ch, clientId, message.channel, now)
    [] message.type = "unsubscribe" ->
         handleUnsubscribe(cl, ch, clientId, message.channel)
    [] message.type = "ping" ->
         [clients |-> cl, channels |-> ch,
          sent |-> broadcastAll(cl, [type |-> "pong", timestamp |-> now])]
    [] message.type = "broadcast" ->
         [clients |-> cl, channels |-> ch,
          sent |-> IF ~Falsy(message.channel) /\ ~Falsy(message.data)
                   THEN broadcastToChannel(cl, ch, message.channel,
                          [type |-> "message", from |-> clientId,
                           data |-> message.data])
                   ELSE <<>>]
    [] OTHER ->
         [clients |-> cl, channels |-> ch,
          sent |-> sendToClient(cl, clientId,
                     [type |-> "error", message |-> "Unknown message type"])]

\* a handleMessage that relays a broadcast to every connection, member of the
\* channel or not
handleMessage_BroadcastToAll(cl, ch, clientId, message, now) ==
  CASE message.type = "subscribe" ->
         handleSubscribe(cl, ch, clientId, message.channel, now)
    [] message.type = "unsubscribe" ->
         handleUnsubscribe(cl, ch, clientId, message.channel)
    [] message.type = "ping" ->
         [clients |-> cl, channels |-> ch,
          sent |-> sendToClient(cl, clientId,
                     [type |-> "pong", timestamp |-> now])]
    [] message.type = "broadcast" ->
         [clients |-> cl, channels |-> ch,
          sent |-> IF ~Falsy(message.channel) /\ ~Falsy(message.data)
                   THEN broadcastAll(cl,
                          WithChannel([type |-> "message", from |-> clientId,
                                       data |-> message.data],
                                      message.channel))
                   ELSE <<>>]
    [] OTHER ->
         [clients |-> cl, channels |-> ch,
          sent |-> sendToClient(cl, clientId,
                     [type |-> "error", message |-> "Unknown message type"])]

\* a handleMessage that spreads the fields of payload.data over the relayed
\* frame, { type: 'message', from: clientId, ...payload.data }, so the
\* client's own type and from fields replace the server's
handleMessage_SpreadData(cl, ch, clientId, message, now) ==
  CASE message.type = "subscribe" ->
         handleSubscribe(cl, ch, clientId, message.channel, now)
    [] message.type = "unsubscribe" ->
         handleUnsubscribe(cl, ch, clientId, message.channel)
    [] message.type = "ping" ->
         [clients |-> cl, channels |-> ch,
          sent |-> sendToClient(cl, clientId,
                     [type |-> "pong", timestamp |-> now])]
    [] message.type = "broadcast" ->
         [clients |-> cl, channels |-> ch,
          sent |-> IF ~Falsy(message.channel) /\ ~Falsy(message.data)
                   THEN broadcastToChannel(cl, ch, message.channel,
                          IF message.data = ForgedEnvelope
                          THEN [type |-> "event", from |-> 0,
                                data |-> message.data]
                          ELSE [type |-> "message", from |-> clientId,
                                data |-> message.data])
                   ELSE <<>>]
    [] OTHER ->
         [clients |-> cl, channels |-> ch,
          sent |-> sendToClient(cl, clientId,
                     [type |-> "error", message |-> "Unknown message type"])]

\* handleMessage: the switch over message.type
handleMessage(cl, ch, clientId, message, now) ==
  CASE message.type = "subscribe" ->
         handleSubscribe(cl, ch, clientId, message.channel, now)
    [] message.type = "unsubscribe" ->
         handleUnsubscribe(cl, ch, clientId, message.channel)
    [] message.type = "ping" ->
         [clients |-> cl, channels |-> ch,
          sent |-> sendToClient(cl, clientId,
                     [type |-> "pong", timestamp |-> now])]
    [] message.type = "broadcast" ->
         [clients |-> cl, channels |-> ch,
          sent |-> IF ~Falsy(message.channel) /\ ~Falsy(message.data)
                   THEN broadcastToChannel(cl, ch, message.channel,
                          [type |-> "message", from |-> clientId,
                           data |-> message.data])
                   ELSE <<>>]
    [] OTHER ->
         [clients |-> cl, channels |-> ch,
          sent |-> sendToClient(cl, clientId,
                     [type |-> "error", message |-> "Unknown message type"])]

(***************************************************************************)
(* Emitting events and settling deliveries.                                *)
(***************************************************************************)
\* an emitter that also hands every valid event to broadcastEvent
EmitCall_Bridged(event, data, now) ==
  LET r == emitEvent(webhookRegistry, event, data, now) IN
  /\ BagCardinality(inflight) + Len(r.fetched) <= MaxInflight
  /\ call' = Call("emit", event, 0, "none", {})
  /\ fetched' = r.fetched
  /\ logged' = r.logged
  /\ rejected' = r.rejected
  /\ res' = NoResponse
  /\ sent' = IF LookupIsTruthy(event)
             THEN broadcastEvent(clients, channels, event, data, now)
             ELSE <<>>
  /\ inflight' = inflight (+) Pendings(r.fetched)
  /\ UNCHANGED <<webhookRegistry, uuids, ordersStore, realtimeVars, wsClient>>

\* a direct call emitEvent(event, data) by domain code
EmitCall(event, data, now) ==
  LET r == emitEvent(webhookRegistry, event, data, now) IN
  /\ BagCardinality(inflight) + Len(r.fetched) <= MaxInflight
  /\ call' = Call("emit", event, 0, "none", {})
  /\ fetched' = r.fetched
  /\ logged' = r.logged
  /\ rejected' = r.rejected
  /\ res' = NoResponse
  /\ sent' = <<>>
  /\ inflight' = inflight (+) Pendings(r.fetched)
  /\ UNCHANGED <<webhookRegistry, uuids, ordersStore, realtimeVars, wsClient>>

\* POST /api/orders: store the order, emit order.created, answer 201
PostOrders(input, now) ==
  LET order == NewOrder(Len(ordersStore) + 1, input)
      r == emitEvent(webhookRegistry, "order.created", order, now)
  IN
  /\ Len(ordersStore) < MaxOrders
  /\ BagCardinality(inflight) + Len(r.fetched) <= MaxInflight
  /\ ordersStore' = Append(ordersStore, order)
  /\ call' = Call("order", "order.created", 0, "none", {})
  /\ fetched' = r.fetched
  /\ logged' = Append(r.logged, [level |-> "info", what |-> "order-created",
                                  about |-> order.id])
  /\ rejected' = r.rejected
  /\ res' = [status |-> 201, body |-> order.id]
  /\ sent' = <<>>
  /\ inflight' = inflight (+) Pendings(r.fetched)
  /\ UNCHANGED <<webhookRegistry, uuids, realtimeVars, wsClient>>

\* the .then / .catch of a dispatched fetch(): one log line
DeliveryLog(pending, outcome) ==
  CASE outcome = "ok" ->
         [level |-> "debug", what |-> "delivered", about |-> pending.url]
    [] outcome = "non2xx" ->
         [level |-> "warn", what |-> "delivery-failed", about |-> pending.url]
    [] outcome = "error" ->
         [level |-> "error", what |-> "delivery-error", about |-> pending.url]

\* the answer of the test route once its awaited fetch() has settled
TestResponse(outcome) ==
  CASE outcome = "ok" ->
         [status |-> 200, body |-> "Test webhook delivered successfully"]
    [] outcome = "non2xx" ->
         [status |-> 200, body |-> "Webhook delivery failed"]
    [] outcome = "error" ->
         [status |-> 200, body |-> "Failed to deliver test webhook"]

\* a dispatcher whose fetch() has a .then but no .catch: a network error
\* leaves the promise rejected and logs nothing
Settle_NoCatch(pending, outcome) ==
  /\ BagIn(pending, inflight)
  /\ inflight' = inflight (-) SetToBag({pending})
  /\ call' = Call("settle", outcome, 0, pending.kind, {pending.url})
  /\ fetched' = <<>> /\ sent' = <<>>
  /\ IF pending.kind = "dispatch"
     THEN /\ logged' = IF outcome = "error" THEN <<>>
                        ELSE <<DeliveryLog(pending, outcome)>>
          /\ rejected' = (outcome = "error")
          /\ res' = NoResponse
     ELSE /\ logged' = <<>>
          /\ rejected' = FALSE
          /\ res' = TestResponse(outcome)
  /\ UNCHANGED <<webhookRegistry, uuids, ordersStore, realtimeVars, wsClient>>

\* a dispatcher that fetches again when a delivery failed: the request is
\* pending once more
Settle_Retry(pending, outcome) ==
  /\ BagIn(pending, inflight)
  /\ inflight' = IF pending.kind = "dispatch" /\ outcome # "ok"
                 THEN inflight
                 ELSE inflight (-) SetToBag({pending})
  /\ call' = Call("settle", outcome, 0, pending.kind, {pending.url})
  /\ fetched' = <<>> /\ rejected' = FALSE /\ sent' = <<>>
  /\ IF pending.kind = "dispatch"
     THEN /\ logged' = <<DeliveryLog(pending, outcome)>>
          /\ res' = NoResponse
     ELSE /\ logged' = <<>>
          /\ res' = TestResponse(outcome)
  /\ UNCHANGED <<webhookRegistry, uuids, ordersStore, realtimeVars, wsClient>>

\* a dispatcher that awaits each fetch() before it goes on: the outcome of a
\* request is not taken while a request to another endpoint is pending
Settle_Awaited(pending, outcome) ==
  /\ BagIn(pending, inflight)
  /\ \A other \in BagToSet(inflight) : other.url = pending.url
  /\ inflight' = inflight (-) SetToBag({pending})
  /\ call' = Call("settle", outcome, 0, pending.kind, {pending.url})
  /\ fetched' = <<>> /\ rejected' = FALSE /\ sent' = <<>>
  /\ IF pending.kind = "dispatch"
     THEN /\ logged' = <<DeliveryLog(pending, outcome)>>
          /\ res' = NoResponse
     ELSE /\ logged' = <<>>
          /\ res' = TestResponse(outcome)
  /\ UNCHANGED <<webhookRegistry, uuids, ordersStore, realtimeVars, wsClient>>

\* the promise of one pending fetch() settles
Settle(pending, outcome) ==
  /\ BagIn(pending, inflight)
  /\ inflight' = inflight (-) SetToBag({pending})
  /\ call' = Call("settle", outcome, 0, pending.kind, {pending.url})
  /\ fetched' = <<>> /\ rejected' = FALSE /\ sent' = <<>>
  /\ IF pending.kind = "dispatch"
     THEN /\ logged' = <<DeliveryLog(pending, outcome)>>
          /\ res' = NoResponse
     ELSE /\ logged' = <<>>
          /\ res' = TestResponse(outcome)
  /\ UNCHANGED <<webhookRegistry, uuids, ordersStore, realtimeVars, wsClient>>

NextWebhook ==
  \/ \E req \in RegistrationRequests :
        PostWebhooks(req.url, req.events, req.secret)
  \/ \E webhookId \in 1..(MaxRegistrations + 1) : DeleteWebhook(webhookId)
  \/ \E webhookId \in 1..(MaxRegistrations + 1), now \in Times :
        PostWebhookTest(webhookId, now)
  \/ \E event \in EventNames, data \in DataInputs, now \in Times :
        EmitCall(event, data, now)
  \/ \E input \in OrderInputs, now \in Times : PostOrders(input, now)
  \/ \E pending \in BagToSet(inflight), outcome \in Outcomes :
        Settle(pending, outcome)

SpecWebhook == Init /\ [][NextWebhook]_vars

\* the registration requests that ask for order.created: two accepted ones
\* with and without a secret, one with a secret that is not a string, and
\* one rejected for its empty url
RegistryRequests ==
  {req \in RegistrationRequests :
     /\ "order.created" \in req.events.items
     /\ "not.a.real.event" \notin req.events.items}

\* the time read by the handlers of the registry specification
RegistryTimes == {"t1"}

\* the registry operations with the emits of order.created
NextRegistry ==
  \/ \E req \in RegistryRequests :
        PostWebhooks(req.url, req.events, req.secret)
  \/ \E webhookId \in 1..(MaxRegistrations + 1) : DeleteWebhook(webhookId)
  \/ \E webhookId \in 1..(MaxRegistrations + 1), now \in RegistryTimes :
        PostWebhookTest(webhookId, now)
  \/ \E data \in DataInputs, now \in RegistryTimes :
        EmitCall("order.created", data, now)
  \/ \E input \in OrderInputs, now \in RegistryTimes : PostOrders(input, now)
  \/ \E pending \in BagToSet(inflight), outcome \in Outcomes :
        Settle(pending, outcome)

SpecRegistry == Init /\ [][NextRegistry]_vars

\* endpoints that accept the connection and then never answer
HangingEndpoints == {"https://b.example/hook"}

\* the pending promises fetch() can leave: the kind of request and its url
AllPendings ==
  [kind : {"dispatch", "test"},
   url : {"https://example.com/hook", "https://b.example/hook"}]

\* the registry operations with the scheduling of the event loop: the
\* promise of a request to an endpoint that answers (or fails) is settled
\* and its callbacks run; fetch() is given no signal and no timeout, so
\* nothing in the code settles the request to an endpoint that never answers
SpecDelivery ==
  /\ Init
  /\ [][NextRegistry]_vars
  /\ \A pending \in {p \in AllPendings : p.url \notin HangingEndpoints} :
       WF_vars(\E outcome \in Outcomes : Settle(pending, outcome))

(***************************************************************************)
(* WebSocket service: events of the server.                                *)
(***************************************************************************)
NoWebhookOutput ==
  /\ fetched' = <<>>
  /\ res' = NoResponse
  /\ logged' = <<>>
  /\ rejected' = FALSE

\* a connection handler that hands out the smallest id no live connection
\* holds, so the id of a closed connection is given out again
Connection_ReusedId(now) ==
  LET clientId == CHOOSE i \in 1..(connections + 1) :
                    /\ i \notin DOMAIN clients
                    /\ \A j \in 1..(i - 1) : j \in DOMAIN clients
  IN
  /\ connections < MaxConnections
  /\ connections' = connections + 1
  /\ clients' = MapSet(clients, clientId,
                   [subscriptions |-> {}, readyState |-> "OPEN",
                    isAlive |-> TRUE])
  /\ sent' = sendToClient(clients', clientId,
               [type |-> "connection", clientId |-> clientId,
                timestamp |-> now])
  /\ call' = Call("connection", "none", clientId, "none", {})
  /\ NoWebhookOutput
  /\ UNCHANGED <<channels, webhookVars, wsClient>>

\* wss.on('connection'): register the client, send the welcome frame, mark
\* the socket alive
Connection(now) ==
  LET clientId == connections + 1 IN
  /\ connections < MaxConnections
  /\ connections' = clientId
  /\ clients' = MapSet(clients, clientId,
                   [subscriptions |-> {}, readyState |-> "OPEN",
                    isAlive |-> TRUE])
  /\ sent' = sendToClient(clients', clientId,
               [type |-> "connection", clientId |-> clientId,
                timestamp |-> now])
  /\ call' = Call("connection", "none", clientId, "none", {})
  /\ NoWebhookOutput
  /\ UNCHANGED <<channels, webhookVars, wsClient>>

\* ws.on('message'): parse, then handleMessage; a parse error is answered
\* with an error frame
OnMessage(clientId, message, now) ==
  /\ clientId \in DOMAIN clients
  /\ clients[clientId].readyState = "OPEN"
  /\ call' = Call("message", message.type, clientId, message.channel,
                  clients[clientId].subscriptions)
  /\ IF message.type = "unparseable"
     THEN /\ sent' = sendToClient(clients, clientId,
                       [type |-> "error",
                        message |-> "Invalid message format. Expected JSON."])
          /\ UNCHANGED <<clients, channels>>
     ELSE LET r == handleMessage(clients, channels, clientId, message, now)
          IN  /\ clients' = r.clients
              /\ channels' = r.channels
              /\ sent' = r.sent
  /\ NoWebhookOutput
  /\ UNCHANGED <<connections, webhookVars, wsClient>>

\* the socket leaves the OPEN state (the peer's close frame arrived, or the
\* socket was terminated); its 'close' event has not been emitted yet
SocketClosing(clientId) ==
  /\ clientId \in DOMAIN clients
  /\ clients[clientId].readyState = "OPEN"
  /\ clients' = [clients EXCEPT ![clientId].readyState = "CLOSING"]
  /\ call' = Call("closing", "none", clientId, "none", {})
  /\ sent' = <<>>
  /\ NoWebhookOutput
  /\ UNCHANGED <<channels, connections, webhookVars, wsClient>>

\* ws.on('close'): handleDisconnect
OnClose(clientId) ==
  LET r == handleDisconnect(clients, channels, clientId) IN
  /\ clientId \in DOMAIN clients
  /\ clients' = r.clients
  /\ channels' = r.channels
  /\ call' = Call("close", "none", clientId, "none",
                  clients[clientId].subscriptions)
  /\ sent' = <<>>
  /\ NoWebhookOutput
  /\ UNCHANGED <<connections, webhookVars, wsClient>>

\* a call broadcastEvent(eventType, eventData) of the exported API
BroadcastEvent(eventType, eventData, now) ==
  /\ sent' = broadcastEvent(clients, channels, eventType, eventData, now)
  /\ call' = Call("broadcastEvent", eventType, 0, "none", {})
  /\ NoWebhookOutput
  /\ UNCHANGED <<realtimeVars, webhookVars, wsClient>>

NextRealtime ==
  \/ \E now \in FrameTimes : Connection(now)
  \/ \E clientId \in 1..MaxConnections, message \in Messages, now \in FrameTimes :
        OnMessage(clientId, message, now)
  \/ \E clientId \in 1..MaxConnections : SocketClosing(clientId)
  \/ \E clientId \in 1..MaxConnections : OnClose(clientId)
  \/ \E eventType \in BroadcastEvents, eventData \in DataInputs, now \in FrameTimes :
        BroadcastEvent(eventType, eventData, now)

SpecRealtime == Init /\ [][NextRealtime]_vars

(***************************************************************************)
(* WebSocket service: heartbeat.                                           *)
(***************************************************************************)
\* a heartbeat that pings every socket and terminates none
heartbeatInterval_PingOnly(cl) ==
  [c \in DOMAIN cl |-> [cl[c] EXCEPT !.isAlive = FALSE]]

\* the callback of the heartbeat interval over wss.clients: a socket that is
\* not alive is terminated (it leaves OPEN; its 'close' event follows); any
\* other socket is marked not alive and pinged
heartbeatInterval(cl) ==
  [c \in DOMAIN cl |->
     IF ~cl[c].isAlive
     THEN [cl[c] EXCEPT !.readyState = "CLOSING"]
     ELSE [cl[c] EXCEPT !.isAlive = FALSE]]

\* one tick of the interval; `call.by` counts the open sockets it terminated
\* (a ping is a control frame, not one of the frames of sendToClient)
Heartbeat ==
  /\ clients' = heartbeatInterval(clients)
  /\ call' = Call("heartbeat", "none",
                  Cardinality({c \in DOMAIN clients :
                                 /\ ~clients[c].isAlive
                                 /\ clients[c].readyState = "OPEN"}),
                  "none", {})
  /\ sent' = <<>>
  /\ NoWebhookOutput
  /\ UNCHANGED <<channels, connections, webhookVars, wsClient>>

\* a pong listener that does not mark the socket alive
Pong_Ignored(clientId) ==
  /\ clientId \in DOMAIN clients
  /\ clients[clientId].readyState = "OPEN"
  /\ clients' = clients
  /\ call' = Call("pong", "none", clientId, "none",
                  clients[clientId].subscriptions)
  /\ sent' = <<>>
  /\ NoWebhookOutput
  /\ UNCHANGED <<channels, connections, webhookVars, wsClient>>

\* ws.on('pong'): the pong of an open socket arrives
Pong(clientId) ==
  /\ clientId \in DOMAIN clients
  /\ clients[clientId].readyState = "OPEN"
  /\ clients' = [clients EXCEPT ![clientId].isAlive = TRUE]
  /\ call' = Call("pong", "none", clientId, "none",
                  clients[clientId].subscriptions)
  /\ sent' = <<>>
  /\ NoWebhookOutput
  /\ UNCHANGED <<channels, connections, webhookVars, wsClient>>

\* handleDisconnect is run once more for a connection whose cleanup is done
DisconnectAgain(clientId) ==
  LET r == handleDisconnect(clients, channels, clientId) IN
  /\ clientId \in 1..connections
  /\ clientId \notin DOMAIN clients
  /\ clients' = r.clients
  /\ channels' = r.channels
  /\ call' = Call("close", "again", clientId, "none", {})
  /\ sent' = <<>>
  /\ NoWebhookOutput
  /\ UNCHANGED <<connections, webhookVars, wsClient>>

\* channels the connections of the heartbeat specification subscribe to
HeartbeatChannels == {"order.created", "all-events"}

NextHeartbeat ==
  \/ \E now \in FrameTimes : Connection(now)
  \/ \E clientId \in 1..MaxConnections, channel \in HeartbeatChannels,
        now \in FrameTimes :
        OnMessage(clientId,
                  [type |-> "subscribe", channel |-> channel, data |-> Undefined],
                  now)
  \/ Heartbeat
  \/ \E clientId \in 1..MaxConnections : Pong(clientId)
  \/ \E clientId \in 1..MaxConnections : SocketClosing(clientId)
  \/ \E clientId \in 1..MaxConnections : OnClose(clientId)
  \/ \E clientId \in 1..MaxConnections : DisconnectAgain(clientId)

SpecHeartbeat == Init /\ [][NextHeartbeat]_vars

(***************************************************************************)
(* Both services in one process: the registry holds subscribers that were  *)
(* registered before the first connection is accepted.                     *)
(***************************************************************************)
\* the registry after the POST /api/webhooks requests of the sequence
RECURSIVE RegistryAfter(_)
RegistryAfter(requests) ==
  IF requests = <<>> THEN <<>>
  ELSE LET before == RegistryAfter(SubSeq(requests, 1, Len(requests) - 1))
           req == requests[Len(requests)]
       IN  IF ValidateRegistration(req.url, req.events) = "ok"
           THEN Append(before,
                  NewWebhook(Len(before) + 1, req.url, req.events, req.secret))
           ELSE before

BridgeRegistries ==
  {RegistryAfter(<<>>),
   RegistryAfter(<<[url |-> "https://example.com/hook",
                    events |-> Array({"order.created"}),
                    secret |-> Undefined]>>)}

InitBridge ==
  /\ webhookRegistry \in BridgeRegistries
  /\ uuids = Len(webhookRegistry)
  /\ ordersStore = <<>>
  /\ inflight = EmptyBag
  /\ call = Call("start", "none", 0, "none", {})
  /\ Quiet
  /\ clients = EmptyMap
  /\ channels = EmptyMap
  /\ connections = 0
  /\ wsClient = NewClient

NextBridge ==
  \/ \E now \in FrameTimes : Connection(now)
  \/ \E clientId \in 1..MaxConnections, channel \in ChannelInputs,
        now \in FrameTimes :
        OnMessage(clientId,
                  [type |-> "subscribe", channel |-> channel, data |-> Undefined],
                  now)
  \/ \E eventType \in BroadcastEvents, eventData \in DataInputs,
        now \in FrameTimes : BroadcastEvent(eventType, eventData, now)
  \/ \E event \in EventNames, data \in DataInputs, now \in Times :
        EmitCall(event, data, now)
  \/ \E pending \in BagToSet(inflight), outcome \in Outcomes :
        Settle(pending, outcome)

SpecBridge == InitBridge /\ [][NextBridge]_vars

(***************************************************************************)
(* Properties of the webhook path.                                         *)
(***************************************************************************)
\* the number of fetch() calls of the last step addressed to subscriber id
Attempts(id) == Cardinality({k \in 1..Len(fetched) : fetched[k].to = id})

\* the registered subscriber with the given id
Subscriber(id) == webhookRegistry[findIndex(webhookRegistry, id)]

\* C1: one emit of a taxonomy event E makes exactly one delivery attempt for
\* each registered subscriber whose events contain E and none for every
\* other subscriber.
C1_OneAttemptPerSubscriber ==
  (call.op = "emit" /\ call.event \in WEBHOOK_EVENTS) =>
    \A i \in 1..Len(webhookRegistry) :
      Attempts(webhookRegistry[i].id) =
        IF call.event \in webhookRegistry[i].events THEN 1 ELSE 0

\* C2: every delivery of a dispatch or of a test to a subscriber with a
\* secret carries as signature the HMAC, under the secret of the subscriber
\* the request is addressed to, of the body that request transmits.
C2_SignatureMatchesBody ==
  \A k \in 1..Len(fetched) :
    LET request == fetched[k]
        subscriber == Subscriber(request.to)
    IN  /\ request.url = subscriber.url
        /\ ~Falsy(subscriber.secret) =>
             request.signature = HmacSha256Hex(subscriber.secret, request.body)

\* C2 witness: one emit has delivered to two subscribers that hold
\* different secrets, each request signed.
C2_Witness ==
  /\ call.op = "emit"
  /\ Len(fetched) = 2
  /\ fetched[1].signature # NoSignature
  /\ fetched[2].signature # NoSignature
  /\ Subscriber(fetched[1].to).secret # Subscriber(fetched[2].to).secret

\* C3: emit with a name outside the taxonomy attempts no webhook delivery,
\* sends no realtime frame and raises nothing.
C3_UnknownEventNoEffect ==
  (call.op = "emit" /\ call.event \notin WEBHOOK_EVENTS) =>
    /\ fetched = <<>>
    /\ sent = <<>>
    /\ ~rejected

\* C10: every registered subscriber has a non-empty events set whose members
\* are all names of the taxonomy (a registration with an empty url, empty
\* events or an unknown name is rejected).
C10_RegisteredEventsRecognized ==
  \A i \in 1..Len(webhookRegistry) :
    /\ webhookRegistry[i].events # {}
    /\ webhookRegistry[i].events \subseteq WEBHOOK_EVENTS
    /\ ~Falsy(webhookRegistry[i].url)

Audience(E) ==
  {c \in DOMAIN clients :
     /\ clients[c].readyState = "OPEN"
     /\ clients[c].subscriptions \cap {E, "all-events"} # {}}

C5_FailureOnlyLogged ==
  /\ (call.op = "settle" /\ call.arg = "dispatch" /\ call.event # "ok") =>
       /\ ~rejected
       /\ res = NoResponse
       /\ Len(logged) = 1
       /\ logged[1].level \in {"warn", "error"}
  /\ call.op = "order" =>
       /\ res.status = 201
       /\ BagCardinality(inflight) >= Len(fetched)

\* C5 witness: the fetch of a dispatched delivery has failed with a network
\* error and the failure is in the log.
C5_Witness ==
  /\ call.op = "settle"
  /\ call.arg = "dispatch"
  /\ call.event = "error"
  /\ Len(logged) = 1
  /\ logged[1].what = "delivery-error"
  /\ Len(ordersStore) = 1

(***************************************************************************)
(* Properties of the realtime path.                                        *)
(***************************************************************************)
\* C6: after the disconnect of a connection its id is a member of no
\* channel, whatever it had subscribed to, and no channel is left in the
\* map with an empty member set.
C6_DisconnectLeavesChannels ==
  call.op = "close" =>
    /\ call.by \notin DOMAIN clients
    /\ \A ch \in DOMAIN channels :
         /\ call.by \notin channels[ch]
         /\ channels[ch] # {}

\* C6 witness: a connection that had two subscriptions has disconnected;
\* one of its channels is gone and one still exists for another member.
C6_Witness ==
  /\ call.op = "close"
  /\ Cardinality(call.had) >= 2
  /\ call.had \cap DOMAIN channels # {}
  /\ call.had \ DOMAIN channels # {}

\* C7: a subscribe to a channel the connection is already subscribed to
\* leaves the member set of every channel and the subscription set of every
\* connection as they were after the first subscribe.
C7_ResubscribeIdempotent ==
  [][(call'.op = "message" /\ call'.event = "subscribe"
        /\ call'.arg \in call'.had)
       => (clients' = clients /\ channels' = channels)]_vars

\* C7 witness: a connection has subscribed again to a channel it shares
\* with another member.
C7_Witness ==
  /\ call.op = "message"
  /\ call.event = "subscribe"
  /\ call.arg \in call.had
  /\ Cardinality(channels[call.arg]) = 2

\* C8: broadcastEvent(E, P) sends an event frame carrying E and P to every
\* open connection subscribed to channel E or to all-events, and no frame
\* to any other connection.
C8_EventReachesAudienceOnly ==
  call.op = "broadcastEvent" =>
    \A c \in DOMAIN clients :
      IF c \in Audience(call.event)
      THEN \E k \in 1..Len(sent) :
             /\ sent[k].to = c
             /\ sent[k].frame.type = "event"
             /\ sent[k].frame.event = call.event
             /\ sent[k].frame.data \in DataInputs
             /\ sent[k].frame.channel \in {call.event, "all-events"}
      ELSE \A k \in 1..Len(sent) : sent[k].to # c

\* C8 witness: inventory.low was bridged while one open connection was
\* subscribed to it and another only to order.created; one frame was sent.
C8_Witness ==
  /\ call.op = "broadcastEvent"
  /\ call.event = "inventory.low"
  /\ \E c, d \in DOMAIN clients :
       /\ clients[c].readyState = "OPEN"
       /\ "inventory.low" \in clients[c].subscriptions
       /\ clients[d].readyState = "OPEN"
       /\ clients[d].subscriptions = {"order.created"}
       /\ Len(sent) = 1
       /\ sent[1].to = c

\* C9: a ping of an open connection is answered with one pong frame, sent
\* to that connection and to no other, whether or not it has subscriptions,
\* and changes no subscription set and no channel membership.
C9_PingPongOnly ==
  [][(call'.op = "message" /\ call'.event = "ping") =>
       /\ Len(sent') = 1
       /\ sent'[1].to = call'.by
       /\ sent'[1].frame.type = "pong"
       /\ clients' = clients
       /\ channels' = channels]_vars

\* C9 witness: a connection without any subscription has pinged while
\* another connection was open, and got its pong.
C9_Witness ==
  /\ call.op = "message"
  /\ call.event = "ping"
  /\ call.had = {}
  /\ \E d \in DOMAIN clients : d # call.by /\ clients[d].readyState = "OPEN"
  /\ Len(sent) = 1
  /\ sent[1].frame.type = "pong"

(***************************************************************************)
(* Properties of the registry operations.                                  *)
(***************************************************************************)
\* the ids of the subscribers of a registry
RegisteredIds(registry) == {registry[i].id : i \in 1..Len(registry)}

\* C11: a remove of an id no subscriber has answers not-found and leaves the
\* registry as it was; a remove of a registered id takes exactly that
\* subscriber out and keeps every other record, in order; an id once removed
\* is never registered again, and every delivery of an emit is addressed to
\* a subscriber that is registered at that time.
C11_RemoveExactlyOne ==
  [][/\ call'.op = "delete" =>
          IF call'.by \in RegisteredIds(webhookRegistry)
          THEN /\ res'.status = 200
               /\ webhookRegistry' =
                    SelectSeq(webhookRegistry, LAMBDA w : w.id # call'.by)
               /\ Len(webhookRegistry') = Len(webhookRegistry) - 1
          ELSE /\ res'.status = 404
               /\ webhookRegistry' = webhookRegistry
     /\ \A id \in RegisteredIds(webhookRegistry) : id <= uuids
     /\ \A id \in RegisteredIds(webhookRegistry') \ RegisteredIds(webhookRegistry) :
          id > uuids
     /\ call'.op \in {"emit", "order"} =>
          \A k \in 1..Len(fetched') :
            fetched'[k].to \in RegisteredIds(webhookRegistry')]_vars

\* C11 witness: the first of two subscribers has been removed and the
\* second is still registered.
C11_Witness ==
  /\ call.op = "delete"
  /\ call.by = 1
  /\ res.status = 200
  /\ RegisteredIds(webhookRegistry) = {2}

\* C12: a test delivery for a registered subscriber starts exactly one
\* request, carrying the test event, to the url of that subscriber, whatever
\* events it subscribed to, and raises nothing; for an unknown id it answers
\* not-found and starts no request; the outcome of the request is answered
\* as a value.
C12_TestDeliversOnce ==
  /\ call.op = "test" =>
       IF call.by \in RegisteredIds(webhookRegistry)
       THEN /\ Len(fetched) = 1
            /\ fetched[1].to = call.by
            /\ fetched[1].event = "test"
            /\ fetched[1].url = Subscriber(call.by).url
            /\ ~rejected
       ELSE /\ res.status = 404
            /\ fetched = <<>>
  /\ (call.op = "settle" /\ call.arg = "test") =>
       /\ res.status = 200
       /\ ~rejected

(***************************************************************************)
(* Properties of message handling.                                         *)
(***************************************************************************)
\* C13: an inbound message that is unparseable, of an unknown type, or a
\* subscribe, unsubscribe or broadcast without its channel is answered with
\* one error frame, sent to the sender; the sender stays open and keeps the
\* subscriptions it had.
C13_MalformedAnsweredWithError ==
  (/\ call.op = "message"
   /\ \/ call.event \in {"unparseable", "bogus"}
      \/ /\ call.event \in {"subscribe", "unsubscribe", "broadcast"}
         /\ call.arg = Undefined) =>
    /\ Len(sent) = 1
    /\ sent[1].to = call.by
    /\ sent[1].frame.type = "error"
    /\ clients[call.by].readyState = "OPEN"
    /\ clients[call.by].subscriptions = call.had

(***************************************************************************)
(* Properties of delivery over time.                                       *)
(***************************************************************************)
\* C14 as stated: delivery is at-least-once, so a dispatched delivery that
\* failed is followed by a successful delivery to the same endpoint.
C14_AtLeastOnce ==
  \A pending \in AllPendings :
    (/\ call.op = "settle" /\ call.arg = "dispatch" /\ call.event # "ok"
     /\ call.had = {pending.url})
    ~> (/\ call.op = "settle" /\ call.arg = "dispatch" /\ call.event = "ok"
        /\ call.had = {pending.url})

\* C14 amended: delivery is best-effort and at-most-once: one emit makes at
\* most one attempt per subscriber, and the settling of an attempt, failed
\* or not, starts no request and takes that one attempt out of the pending
\* ones; requests are started by an emit, an order or a test only.
C14_FailedAttemptNotRetried ==
  [][/\ call'.op = "settle" =>
          /\ fetched' = <<>>
          /\ BagCardinality(inflight') = BagCardinality(inflight) - 1
     /\ fetched' # <<>> => call'.op \in {"emit", "order", "test"}
     /\ \A id \in RegisteredIds(webhookRegistry') :
          Cardinality({k \in 1..Len(fetched') : fetched'[k].to = id}) <= 1]_vars

\* C14 witness: a dispatched delivery was answered with a status that is not
\* 2xx; its subscriber is still registered and no request is pending.
C14_Witness ==
  /\ call.op = "settle"
  /\ call.arg = "dispatch"
  /\ call.event = "non2xx"
  /\ inflight = EmptyBag
  /\ \E i \in 1..Len(webhookRegistry) : call.had = {webhookRegistry[i].url}

C17_FailureIsolated ==
  call.op \in {"emit", "order"} =>
    /\ ~rejected
    /\ \A i \in 1..Len(webhookRegistry) :
         (/\ call.event \in webhookRegistry[i].events
          /\ (Falsy(webhookRegistry[i].secret)
                \/ ValidHmacKey(webhookRegistry[i].secret))) =>
           Attempts(webhookRegistry[i].id) = 1

\* C18: the secret of a subscriber is set when it is registered, to the
\* value the caller supplied or else to a freshly generated one that no
\* other subscriber holds, and no operation changes the id, url, events or
\* secret of a subscriber that stays registered.
C18_SecretFixedAtRegistration ==
  [][/\ \A i \in 1..Len(webhookRegistry), j \in 1..Len(webhookRegistry') :
          webhookRegistry[i].id = webhookRegistry'[j].id =>
            webhookRegistry[i] = webhookRegistry'[j]
     /\ (call'.op = "register" /\ res'.status = 201) =>
          LET w == webhookRegistry'[Len(webhookRegistry')] IN
          /\ w.id \notin RegisteredIds(webhookRegistry)
          /\ w.secret = IF Falsy(call'.arg)
                        THEN randomBytesHex(w.id) ELSE call'.arg
          /\ Falsy(call'.arg) =>
               \A i \in 1..Len(webhookRegistry) :
                 webhookRegistry[i].secret # w.secret]_vars

\* C18 witness: a test delivery has been answered while the registry holds a
\* subscriber with the secret its caller supplied and one with a generated
\* secret.
C18_Witness ==
  /\ call.op = "settle"
  /\ call.arg = "test"
  /\ \E i, j \in 1..Len(webhookRegistry) :
       /\ webhookRegistry[i].secret = "whsec_1"
       /\ webhookRegistry[j].secret = randomBytesHex(webhookRegistry[j].id)

(***************************************************************************)
(* Properties of connection health and cleanup.                            *)
(***************************************************************************)
\* C19: at a heartbeat cycle every connection that has not answered the
\* ping of the cycle before is terminated: it is no longer open, and stays
\* so; once its close is processed it is neither in the connection registry
\* nor a member of any channel.
C19_SilentConnectionTerminated ==
  [][/\ call'.op = "heartbeat" =>
          \A c \in DOMAIN clients :
            ~clients[c].isAlive =>
              /\ c \in DOMAIN clients'
              /\ clients'[c].readyState # "OPEN"
     /\ \A c \in DOMAIN clients \cap DOMAIN clients' :
          clients[c].readyState # "OPEN" => clients'[c].readyState # "OPEN"
     /\ call'.op = "close" =>
          /\ call'.by \notin DOMAIN clients'
          /\ \A ch \in DOMAIN channels' : call'.by \notin channels'[ch]]_vars

\* C19 witness: a heartbeat cycle has terminated an open connection that was
\* not alive and is a member of a channel, and left another one open.
C19_Witness ==
  /\ call.op = "heartbeat"
  /\ call.by >= 1
  /\ \E c, d \in DOMAIN clients :
       /\ clients[c].readyState = "CLOSING"
       /\ clients[c].subscriptions # {}
       /\ clients[d].readyState = "OPEN"

\* C20: cleanup for a connection whose cleanup has run changes nothing, and
\* any cleanup for a connection leaves the record of every other connection
\* as it was and keeps every channel that has another member, with exactly
\* its other members.
C20_CloseIdempotent ==
  [][call'.op = "close" =>
       /\ call'.by \notin DOMAIN clients =>
            (clients' = clients /\ channels' = channels)
       /\ \A d \in DOMAIN clients \ {call'.by} :
            d \in DOMAIN clients' /\ clients'[d] = clients[d]
       /\ \A ch \in DOMAIN channels :
            channels[ch] \ {call'.by} # {} =>
              /\ ch \in DOMAIN channels'
              /\ channels'[ch] = channels[ch] \ {call'.by}]_vars

\* C20 witness: cleanup has been triggered a second time for a closed
\* connection while another connection is a member of a channel.
C20_Witness ==
  /\ call.op = "close"
  /\ call.event = "again"
  /\ \E d \in DOMAIN clients : clients[d].subscriptions # {}
  /\ DOMAIN channels # {}

(***************************************************************************)
(* WebSocket service: channels, connections and relayed frames.            *)
(***************************************************************************)
\* inbound frames of the channel specification: well-formed subscribe,
\* unsubscribe and broadcast frames over two channels
ChannelMessages ==
  [type : {"subscribe", "unsubscribe"}, channel : HeartbeatChannels,
   data : {Undefined}]
  \cup [type : {"broadcast"}, channel : HeartbeatChannels, data : BroadcastData]

NextChannels ==
  \/ \E now \in FrameTimes : Connection(now)
  \/ \E clientId \in 1..MaxConnections, message \in ChannelMessages,
        now \in FrameTimes :
        OnMessage(clientId, message, now)
  \/ \E clientId \in 1..MaxConnections : SocketClosing(clientId)
  \/ \E clientId \in 1..MaxConnections : OnClose(clientId)
  \/ \E eventData \in DataInputs, now \in FrameTimes :
        BroadcastEvent("order.created", eventData, now)

SpecChannels == Init /\ [][NextChannels]_vars

\* C21: a channel is in a connection's subscriptions exactly when the
\* connection is in that channel's member set, and every member of a channel
\* is a connection of the registry, whatever subscribe, unsubscribe and
\* disconnect steps have run.
C21_SubscriptionsMirrorChannels ==
  /\ \A i \in DOMAIN clients :
     \A c \in clients[i].subscriptions \cup DOMAIN channels :
       c \in clients[i].subscriptions <=>
         (c \in DOMAIN channels /\ i \in channels[c])
  /\ \A c \in DOMAIN channels : channels[c] \subseteq DOMAIN clients

\* C21 witness: a connection has just unsubscribed from a channel another
\* connection is still a member of: the channel is kept, without the
\* connection that left.
C21_Witness ==
  /\ call.op = "message" /\ call.event = "unsubscribe"
  /\ call.arg \in call.had
  /\ call.arg \in DOMAIN channels
  /\ channels[call.arg] # {}
  /\ call.by \notin channels[call.arg]
  /\ call.by \in DOMAIN clients

\* the channels some registered connection is subscribed to
SubscribedChannels(cl) == UNION {cl[i].subscriptions : i \in DOMAIN cl}

\* C22: a channel exists exactly while it has at least one member: no step
\* leaves a channel with an empty member set, the channels that exist are
\* the ones some connection is subscribed to, the first subscription to a
\* channel creates it with that one member, and a channel disappears only
\* with the step that removes its last member.
C22_ChannelExistsWhileMembers ==
  [][/\ \A c \in DOMAIN channels' : channels'[c] # {}
     /\ DOMAIN channels' = SubscribedChannels(clients')
     /\ \A c \in DOMAIN channels' \ DOMAIN channels :
          /\ call'.op = "message" /\ call'.event = "subscribe"
          /\ call'.arg = c
          /\ channels'[c] = {call'.by}
     /\ \A c \in DOMAIN channels \ DOMAIN channels' :
          /\ channels[c] = {call'.by}
          /\ \/ call'.op = "close"
             \/ call'.op = "message" /\ call'.event = "unsubscribe"
                  /\ call'.arg = c]_vars

\* C22 witness: the only member of a channel has unsubscribed and the
\* channel is gone, while another channel still exists.
C22_Witness ==
  /\ call.op = "message" /\ call.event = "unsubscribe"
  /\ call.arg \in call.had
  /\ call.arg \notin DOMAIN channels
  /\ DOMAIN channels # {}

\* the connections the frames of the last step were addressed to
Recipients(frames) == {frames[k].to : k \in 1..Len(frames)}

\* the members of a channel whose socket is OPEN
OpenMembers(cl, ch, channel) ==
  IF channel \notin DOMAIN ch THEN {}
  ELSE {i \in ch[channel] : i \in DOMAIN cl /\ cl[i].readyState = "OPEN"}

ChannelMembers(ch) == UNION {ch[c] : c \in DOMAIN ch}

\* the connections whose cleanup has run (Closed)
Closed(cl, accepted) == (1..accepted) \ DOMAIN cl

\* C24: a connection is Open, then Closing, then Closed, and never goes
\* back: the step that opens it gives it an id no live connection has and
\* sends it, as the only frame of the step, the connection frame carrying
\* that id; frames go to open connections of the registry only; a Closing
\* connection never becomes Open again; and the id of a Closed connection
\* gets no frame and never reappears in the registry or in a channel.
C24_ConnectionLifecycle ==
  [][/\ call'.op = "connection" =>
          /\ call'.by \notin DOMAIN clients
          /\ call'.by \in DOMAIN clients'
          /\ clients'[call'.by].readyState = "OPEN"
          /\ Len(sent') = 1
          /\ sent'[1].to = call'.by
          /\ sent'[1].frame.type = "connection"
          /\ sent'[1].frame.clientId = call'.by
     /\ \A k \in 1..Len(sent') :
          /\ sent'[k].to \in DOMAIN clients'
          /\ clients'[sent'[k].to].readyState = "OPEN"
          /\ sent'[k].to \in DOMAIN clients \/ sent'[k].frame.type = "connection"
     /\ \A i \in DOMAIN clients \cap DOMAIN clients' :
          clients[i].readyState = "CLOSING" =>
            clients'[i].readyState = "CLOSING"
     /\ \A i \in Closed(clients, connections) :
          /\ i \in Closed(clients', connections')
          /\ i \notin ChannelMembers(channels')
          /\ i \notin Recipients(sent')]_vars

\* C24 witness: a second connection is opened after the first one was
\* closed, and gets the connection frame with its own id.
C24_Witness ==
  /\ call.op = "connection"
  /\ call.by = 2
  /\ 1 \in Closed(clients, connections)
  /\ sent = <<[to |-> 2,
               frame |-> [type |-> "connection", clientId |-> 2,
                          timestamp |-> "t1"]]>>

(***************************************************************************)
(* Secrets of registered subscribers.                                      *)
(***************************************************************************)
\* registrations for order.created whose secret is omitted, empty, a string
\* or a number
SecretRequests ==
  RegistryRequests
  \cup {[url |-> "https://example.com/hook",
         events |-> Array({"order.created"}), secret |-> ""]}

NextSecrets ==
  \/ \E req \in SecretRequests :
        PostWebhooks(req.url, req.events, req.secret)
  \/ \E webhookId \in 1..(MaxRegistrations + 1), now \in RegistryTimes :
        PostWebhookTest(webhookId, now)
  \/ \E data \in DataInputs, now \in RegistryTimes :
        EmitCall("order.created", data, now)
  \/ \E pending \in BagToSet(inflight), outcome \in Outcomes :
        Settle(pending, outcome)

SpecSecrets == Init /\ [][NextSecrets]_vars

\* C25: every subscriber of the registry has a non-empty secret (an empty or
\* omitted one was replaced by a generated one at registration), and every
\* request a dispatch or a test delivery makes carries a signature.
C25_EveryDeliverySigned ==
  /\ \A i \in 1..Len(webhookRegistry) : ~Falsy(webhookRegistry[i].secret)
  /\ \A k \in 1..Len(fetched) : fetched[k].signature # NoSignature

\* C25 witness: one emit has delivered, signed, to two subscribers whose
\* secrets were generated at registration (the request gave none, or "").
C25_Witness ==
  /\ call.op = "emit"
  /\ Len(fetched) = 2
  /\ \A k \in 1..2 :
       /\ fetched[k].signature # NoSignature
       /\ Subscriber(fetched[k].to).secret = randomBytesHex(fetched[k].to)

\* the positions of the frames of the last step addressed to a connection
FramesTo(frames, i) == {k \in 1..Len(frames) : frames[k].to = i}

\* C26: for one bridged event E, every connection of the registry gets one
\* event frame for each of the channels E and all-events it is subscribed
\* to while open, tagged with that channel: two frames when subscribed to
\* both, one when subscribed to one of them, none otherwise.
C26_OneFramePerSubscribedChannel ==
  call.op = "broadcastEvent" =>
    /\ Recipients(sent) \subseteq DOMAIN clients
    /\ \A i \in DOMAIN clients :
         LET reached == IF clients[i].readyState = "OPEN"
                        THEN clients[i].subscriptions
                               \cap {call.event, "all-events"}
                        ELSE {}
         IN  /\ Cardinality(FramesTo(sent, i)) = Cardinality(reached)
             /\ {sent[k].frame.channel : k \in FramesTo(sent, i)} = reached
             /\ \A k \in FramesTo(sent, i) :
                  /\ sent[k].frame.type = "event"
                  /\ sent[k].frame.event = call.event

\* C26 witness: one bridged event gave two frames to a connection subscribed
\* to both channels and one frame to a connection subscribed to one.
C26_Witness ==
  /\ call.op = "broadcastEvent"
  /\ Len(sent) = 3
  /\ \E i, j \in DOMAIN clients :
       /\ Cardinality(FramesTo(sent, i)) = 2
       /\ Cardinality(FramesTo(sent, j)) = 1

\* C27: whatever a client puts in payload.data of a broadcast, every frame
\* relayed to the members has exactly the fields type, from, data and
\* channel, with type message, from the id of the connection that sent the
\* broadcast and channel the channel it was published to; the client's data
\* stays inside the data field.
C27_EnvelopeNotForgeable ==
  [][(call'.op = "message" /\ call'.event = "broadcast") =>
       \A k \in 1..Len(sent') :
         LET frame == sent'[k].frame IN
         /\ DOMAIN frame = {"type", "from", "data", "channel"}
         /\ frame.type = "message"
         /\ frame.from = call'.by
         /\ frame.from \in DOMAIN clients
         /\ frame.channel = call'.arg
         /\ sent'[k].to \in channels[frame.channel]]_vars

\* C27 witness: a broadcast whose data imitates an event envelope from
\* connection 0 on all-events was relayed on order.created to another
\* connection as a message frame from its real sender.
C27_Witness ==
  /\ call.op = "message" /\ call.event = "broadcast"
  /\ call.arg = "order.created"
  /\ \E k \in 1..Len(sent) :
       /\ sent[k].to # call.by
       /\ sent[k].frame.data = ForgedEnvelope
       /\ sent[k].frame.type = "message"
       /\ sent[k].frame.from = call.by
       /\ sent[k].frame.channel = "order.created"

\* C28: the heartbeat never terminates a responsive connection. A socket is
\* marked alive when it is accepted and whenever its pong arrives, only a
\* heartbeat cycle clears the mark, and a cycle leaves every socket that is
\* marked alive in the state it was in; so a connection whose pong arrives
\* between every two cycles is never terminated by the heartbeat.
C28_ResponsiveNeverTerminated ==
  [][/\ call'.op = "heartbeat" =>
          \A i \in DOMAIN clients :
            clients[i].isAlive =>
              /\ i \in DOMAIN clients'
              /\ clients'[i].readyState = clients[i].readyState
     /\ call'.op = "pong" => clients'[call'.by].isAlive
     /\ call'.op = "connection" => clients'[call'.by].isAlive
     /\ call'.op # "heartbeat" =>
          \A i \in DOMAIN clients \cap DOMAIN clients' :
            clients[i].isAlive => clients'[i].isAlive]_vars

\* C28 witness: a heartbeat cycle has terminated the silent second
\* connection and left open the first one, which is older, has been through
\* every cycle the second one has, and answered.
C28_Witness ==
  /\ call.op = "heartbeat"
  /\ call.by = 1
  /\ DOMAIN clients = {1, 2}
  /\ clients[1].readyState = "OPEN"
  /\ clients[2].readyState = "CLOSING"

(***************************************************************************)
(* Orders API: status updates.                                             *)
(***************************************************************************)
\* `status` of the body of PATCH /api/orders/:orderId
OrderStatuses == {"pending", "shipped", "cancelled", "delivered"}

\* :orderId of the request: the ids handed out, and one no order has
OrderIds == {OrderId(n) : n \in 1..MaxOrders} \cup {"ord_unknown"}

\* ordersStore.find(o => o.id === orderId) as an index, 0 for undefined
findOrder(store, orderId) ==
  IF \E k \in 1..Len(store) : store[k].id = orderId
  THEN CHOOSE k \in 1..Len(store) :
         /\ store[k].id = orderId
         /\ \A j \in 1..(k - 1) : store[j].id # orderId
  ELSE 0

\* order.status = status; order.updatedAt = new Date().toISOString()
UpdatedOrder(order, status, now) ==
  [f \in DOMAIN order \cup {"updatedAt"} |->
     IF f = "status" THEN status
     ELSE IF f = "updatedAt" THEN now
     ELSE order[f]]

\* a step that calls neither emitEvent nor fetch
NothingEmitted == [fetched |-> <<>>, logged |-> <<>>, rejected |-> FALSE]

\* a status update that emits order.shipped for every update to shipped,
\* whatever the status was before
StatusEvent_EveryShipped(registry, order, status, previousStatus, now) ==
  IF status = "shipped"
  THEN emitEvent(registry, "order.shipped", order, now)
  ELSE IF status = "cancelled" /\ previousStatus # "cancelled"
  THEN emitEvent(registry, "order.cancelled", order, now)
  ELSE NothingEmitted

\* the if / else if of the status update: which event it emits, if any
StatusEvent(registry, order, status, previousStatus, now) ==
  IF status = "shipped" /\ previousStatus # "shipped"
  THEN emitEvent(registry, "order.shipped", order, now)
  ELSE IF status = "cancelled" /\ previousStatus # "cancelled"
  THEN emitEvent(registry, "order.cancelled", order, now)
  ELSE NothingEmitted

\* PATCH /api/orders/:orderId
PatchOrders(orderId, status, now) ==
  LET index == findOrder(ordersStore, orderId) IN
  /\ call' = Call("patch", status, 0, orderId, {})
  /\ sent' = <<>>
  /\ IF index = 0
     THEN /\ res' = [status |-> 404, body |-> "Order not found"]
          /\ fetched' = <<>> /\ logged' = <<>> /\ rejected' = FALSE
          /\ UNCHANGED <<ordersStore, inflight>>
     ELSE LET previousStatus == ordersStore[index].status
              order == UpdatedOrder(ordersStore[index], status, now)
              r == StatusEvent(webhookRegistry, order, status,
                               previousStatus, now)
          IN  /\ BagCardinality(inflight) + Len(r.fetched) <= MaxInflight
              /\ ordersStore' = [ordersStore EXCEPT ![index] = order]
              /\ fetched' = r.fetched
              /\ logged' = Append(r.logged,
                             [level |-> "info", what |-> "order-status-changed",
                              about |-> order.id])
              /\ rejected' = r.rejected
              /\ res' = [status |-> 200, body |-> order.id]
              /\ inflight' = inflight (+) Pendings(r.fetched)
  /\ UNCHANGED <<webhookRegistry, uuids, realtimeVars, wsClient>>

\* registrations for the order events
OrderRequests ==
  {[url |-> "https://example.com/hook",
    events |-> Array({"order.created", "order.shipped"}), secret |-> Undefined],
   [url |-> "https://b.example/hook",
    events |-> Array({"order.shipped", "order.cancelled"}),
    secret |-> "whsec_1"]}

NextOrders ==
  \/ \E req \in OrderRequests :
        PostWebhooks(req.url, req.events, req.secret)
  \/ \E input \in OrderInputs, now \in RegistryTimes : PostOrders(input, now)
  \/ \E orderId \in OrderIds, status \in OrderStatuses, now \in RegistryTimes :
        PatchOrders(orderId, status, now)
  \/ \E pending \in BagToSet(inflight), outcome \in Outcomes :
        Settle(pending, outcome)

SpecOrders == Init /\ [][NextOrders]_vars

\* the events the last step handed to the dispatcher: an emit either logs
\* that the event has no subscribers or starts the requests that carry it
EmittedEvents ==
  {logged[k].about : k \in {j \in 1..Len(logged) :
                              logged[j].what = "no-subscribers"}}
  \cup {fetched[k].event : k \in 1..Len(fetched)}

\* the last step dispatched no event twice
EmittedOnce ==
  /\ Cardinality({k \in 1..Len(logged) :
                    logged[k].what = "no-subscribers"}) <= 1
  /\ \A i \in 1..Len(webhookRegistry) : Attempts(webhookRegistry[i].id) <= 1

\* C29: a status update emits order.shipped, once, exactly when the new
\* status is shipped and the previous one was not, order.cancelled, once,
\* exactly when the new status is cancelled and the previous one was not,
\* and nothing in every other case; an update of an unknown order id emits
\* nothing and changes no order; creating an order emits order.created once.
C29_EventOnTransitionOnly ==
  [][/\ call'.op = "patch" =>
          LET index == findOrder(ordersStore, call'.arg)
              status == call'.event
          IN  IF index = 0
              THEN /\ EmittedEvents' = {}
                   /\ ordersStore' = ordersStore
                   /\ res'.status = 404
              ELSE /\ EmittedOnce'
                   /\ EmittedEvents' =
                        IF status = "shipped"
                             /\ ordersStore[index].status # "shipped"
                        THEN {"order.shipped"}
                        ELSE IF status = "cancelled"
                                  /\ ordersStore[index].status # "cancelled"
                        THEN {"order.cancelled"}
                        ELSE {}
                   /\ ordersStore'[index].status = status
     /\ call'.op = "order" =>
          /\ EmittedEvents' = {"order.created"}
          /\ EmittedOnce'
          /\ Len(ordersStore') = Len(ordersStore) + 1]_vars

\* C29 witness: an update to shipped has started one delivery of
\* order.shipped to each of two subscribers, carrying the updated order.
C29_Witness ==
  /\ call.op = "patch" /\ call.event = "shipped"
  /\ Len(fetched) = 2
  /\ fetched[1].to # fetched[2].to
  /\ \A k \in 1..2 : fetched[k].event = "order.shipped"
  /\ ordersStore[1].status = "shipped"

(***************************************************************************)
(* WebSocket client service of the browser.                                *)
(***************************************************************************)
maxReconnectAttempts == 5

\* connect(): nothing when `ws` is an open socket; otherwise a new socket,
\* with its handlers, replaces `ws` (the socket is CONNECTING)
connect(c) ==
  IF c.ws # 0 /\ c.ws \in DOMAIN c.sockets /\ c.sockets[c.ws] = "OPEN"
  THEN c
  ELSE [c EXCEPT !.created = @ + 1,
                 !.ws = c.created + 1,
                 !.sockets = MapSet(c.sockets, c.created + 1, "CONNECTING")]

\* handleReconnect(): give up at the maximum, otherwise count the attempt
\* and set the timer that will call connect()
handleReconnect(c) ==
  IF c.reconnectAttempts >= maxReconnectAttempts
  THEN c
  ELSE [c EXCEPT !.reconnectAttempts = @ + 1, !.timers = @ + 1]

\* disconnect(): close the socket `ws` refers to, if any, and forget it
disconnect(c) ==
  IF c.ws = 0
  THEN c
  ELSE [c EXCEPT !.sockets = IF c.ws \in DOMAIN c.sockets
                             THEN MapSet(c.sockets, c.ws, "CLOSING")
                             ELSE c.sockets,
                 !.ws = 0,
                 !.clientId = 0]

\* a step of the client service: the server side and the output of the
\* server are not involved
ClientStep(op, socket) ==
  /\ call' = Call(op, "none", socket, "none", {})
  /\ sent' = <<>>
  /\ NoWebhookOutput
  /\ UNCHANGED <<realtimeVars, webhookVars>>

\* the application calls connect()
ClientConnect ==
  /\ wsClient' = connect(wsClient)
  /\ wsClient'.created <= MaxSockets
  /\ ClientStep("client-connect", wsClient'.ws)

\* ws.onopen of a socket
ClientOpen(socket) ==
  /\ socket \in DOMAIN wsClient.sockets
  /\ wsClient.sockets[socket] = "CONNECTING"
  /\ wsClient' = [wsClient EXCEPT !.sockets[socket] = "OPEN",
                                  !.reconnectAttempts = 0]
  /\ ClientStep("client-open", socket)

\* ws.onmessage of an open socket with the connection frame of the server
ClientWelcome(socket) ==
  /\ socket \in DOMAIN wsClient.sockets
  /\ wsClient.sockets[socket] = "OPEN"
  /\ wsClient' = [wsClient EXCEPT !.clientId = socket]
  /\ ClientStep("client-welcome", socket)

\* the application calls disconnect()
ClientDisconnect ==
  /\ wsClient' = disconnect(wsClient)
  /\ ClientStep("client-disconnect", wsClient.ws)

\* ws.onclose of a socket: the connection failed or was lost, or the close
\* the client asked for has completed
ClientClose(socket) ==
  /\ socket \in DOMAIN wsClient.sockets
  /\ wsClient' = handleReconnect(
                   [wsClient EXCEPT !.sockets = MapDelete(@, socket),
                                    !.clientId = 0])
  /\ ClientStep("client-close", socket)

\* the callback of a reconnect timer: connect()
ClientTimer ==
  /\ wsClient.timers > 0
  /\ wsClient' = connect([wsClient EXCEPT !.timers = @ - 1])
  /\ wsClient'.created <= MaxSockets
  /\ ClientStep("client-timer", wsClient'.ws)

NextClient ==
  \/ ClientConnect
  \/ \E socket \in 1..MaxSockets : ClientOpen(socket)
  \/ \E socket \in 1..MaxSockets : ClientWelcome(socket)
  \/ ClientDisconnect
  \/ \E socket \in 1..MaxSockets : ClientClose(socket)
  \/ ClientTimer

SpecClient == Init /\ [][NextClient]_vars

\* C30: after the application calls disconnect() (which leaves `ws` null
\* until the next connect()), the client makes no connection attempt of its
\* own: a close that is handled while `ws` is null sets no reconnect timer
\* and counts no attempt, no timer opens a socket while `ws` is null, and
\* the attempts counted in a row never exceed the maximum.
C30_NoReconnectAfterDisconnect ==
  [][/\ (call'.op = "client-close" /\ wsClient.ws = 0) =>
          /\ wsClient'.timers = wsClient.timers
          /\ wsClient'.reconnectAttempts = wsClient.reconnectAttempts
     /\ (call'.op = "client-timer" /\ wsClient.ws = 0) =>
          wsClient'.created = wsClient.created
     /\ wsClient'.reconnectAttempts <= maxReconnectAttempts]_vars

====
